---- MODULE Spec2Model ----
(***************************************************************************)
(* Model of the DOU coordinator (src/coordenador): the command-line entry  *)
(* point main(), the Orquestrador stage wrappers and the artifact resolver *)
(* encontrar_arquivo_mais_recente; the exit status of the index worker     *)
(* (src/busca); the Monitor (iniciar, parar, the monitoring loop and the   *)
(* retention of its status snapshots), alone and next to a run of the      *)
(* coordinator; and the resolver and the availability probe as functions   *)
(* of their inputs.                                                        *)
(*                                                                         *)
(* File names are sequences of text fragments ("2024", "-", "_secao",      *)
(* ".json", ...), so that substring matching (glob "*padrao*"), basename,  *)
(* str.replace and os.path.splitext are computed as the code computes      *)
(* them.  The workers are opaque child processes: their exit code, the     *)
(* file they leave behind and their standard output are chosen by the      *)
(* environment.                                                            *)
(***************************************************************************)
EXTENDS Integers, Sequences, FiniteSets, TLC

VARIABLES
    modo,                \* args.modo (main.py:96)
    data,                \* the target date (main.py:82)
    secao,               \* the DOU section (main.py:92)
    formato,             \* config 'formato_saida' (orquestrador.py:171)
    fs,                  \* files on disk: set of [dir, nome, mtime]
    dirs,                \* directories that exist under output_dir
    relogio,             \* the clock that stamps modification times
    pc,                  \* position of main()
    vivos,               \* worker subprocesses that are alive
    lancamentos,         \* every subprocess.run of a stage: [etapa, entrada, saida]
    codigos,             \* exit codes of the terminated workers, in order
    saida,               \* result of the last subprocess.run: [codigo, stdout]
    arquivo_bruto,       \* main.py:105 / 164
    arquivo_processado,  \* main.py:109 / 181
    arquivo_organizado,  \* main.py:113 / 198
    resultado_indexacao, \* main.py:117 / 207
    relatorios,          \* run reports written to disk (main.py:148)
    retorno,             \* return value of main(): -1 while running
    worker_resultado_indexacao, \* busca/main.py:88: outcome of the indexing in the worker
    executando,          \* Monitor.executando, the run flag (monitor.py:37)
    thread_monitor,      \* Monitor.thread_monitor: index in threads, 0 for None
    threads,             \* the Thread objects created by iniciar, in order
    chamadores,          \* the threads that call iniciar and parar
    status_dir,          \* files of dados/status, oldest modification first
    falhas,              \* failures the environment has caused so far
    agora,               \* the clock second that names the snapshots: seconds in
                         \* which no snapshot was written are not counted
    usar_mensageria,     \* config 'usar_mensageria' (monitor.py:122)
    chamadas             \* calls of the resolver and of the probe made so far,
                         \* each with its arguments and what it returned

vars == <<modo, data, secao, formato, fs, dirs, relogio, pc, vivos, lancamentos,
          codigos, saida, arquivo_bruto, arquivo_processado, arquivo_organizado,
          resultado_indexacao, relatorios, retorno, worker_resultado_indexacao,
          executando, thread_monitor, threads, chamadores, status_dir, falhas, agora,
          usar_mensageria, chamadas>>

\* the state of the coordinator's run
varsCoordenador == <<modo, data, secao, formato, fs, dirs, relogio, pc, vivos, lancamentos,
                     codigos, saida, arquivo_bruto, arquivo_processado,
                     arquivo_organizado, resultado_indexacao, relatorios, retorno,
                     worker_resultado_indexacao>>

\* the state of the Monitor and of its status directory
varsMonitor == <<executando, thread_monitor, threads, chamadores, status_dir, falhas,
                 agora>>

\* what no step of the Monitor changes
varsForaDoMonitor == <<varsCoordenador, usar_mensageria, chamadas>>

\* what no step of the coordinator's run changes
varsForaDoCoordenador == <<varsMonitor, usar_mensageria, chamadas>>

(***************************************************************************)
(* Bounds of the model.                                                    *)
(***************************************************************************)
\* files already on disk when main() starts
MaxPre == 2
\* modification times of the files already on disk: 1..MaxMtimePre
MaxMtimePre == 2

(***************************************************************************)
(* Inputs.                                                                 *)
(***************************************************************************)
Nenhum == [dir |-> "", nome |-> <<>>]

Modos == {"completo", "coleta", "processamento", "organizacao", "busca"}

Formatos == {"csv", "excel", "json"}

Etapas == <<"coleta", "processamento", "organizacao", "indexacao">>

(***************************************************************************)
(* Text helpers.                                                           *)
(***************************************************************************)
\* data.strftime('%Y-%m-%d')
strftime_Ymd(d) == <<d.ano, "-", d.mes, "-", d.dia>>

\* data.strftime('%d-%m-%Y')
strftime_dmY(d) == <<d.dia, "-", d.mes, "-", d.ano>>

\* str(secao)
str(n) == CASE n = 1 -> "1" [] n = 2 -> "2" [] n = 3 -> "3"

\* f"{data.strftime('%Y-%m-%d')}_secao{secao}"
chave(d, n) == strftime_Ymd(d) \o <<"_secao", str(n)>>

\* fragments that start with a dot: the only place a "." occurs in a name
Extensoes == {".json", ".csv", ".excel", ".xlsx", ".bak"}

\* nome.replace('processado_', ''): every occurrence is removed
replace_processado(nome) == SelectSeq(nome, LAMBDA t : t # "processado_")

\* os.path.splitext(nome)[0]: cut at the last dot, unless the name starts there
splitext0(nome) ==
    LET pontos == {i \in 2..Len(nome) : nome[i] \in Extensoes}
    IN  IF pontos = {} THEN nome
        ELSE SubSeq(nome, 1, (CHOOSE i \in pontos : \A j \in pontos : j <= i) - 1)

\* fnmatch of "*padrao*": padrao occurs in nome
Casam(nome, padrao) ==
    \E i \in 0..(Len(nome) - Len(padrao)) :
        SubSeq(nome, i + 1, i + Len(padrao)) = padrao

(***************************************************************************)
(* The file system.                                                        *)
(***************************************************************************)
Caminho(d, n) == [dir |-> d, nome |-> n]

\* os.path.exists(caminho)
exists(disco, c) == \E f \in disco : f.dir = c.dir /\ f.nome = c.nome

\* writing a file: created, or overwritten with a new modification time
Escreve(disco, c, t) ==
    {f \in disco : ~(f.dir = c.dir /\ f.nome = c.nome)}
        \cup {[dir |-> c.dir, nome |-> c.nome, mtime |-> t]}

\* glob.glob(os.path.join(diretorio, f"*{padrao}*"))
glob(disco, diretorio, padrao) ==
    {f \in disco : f.dir = diretorio /\ Casam(f.nome, padrao)}

\* Orquestrador.encontrar_arquivo_mais_recente: the values it may return.
\* max(arquivos, key=os.path.getmtime) returns the first file of greatest
\* mtime in the order of the directory listing, which is not specified.
encontrar_arquivo_mais_recente(disco, pastas, diretorio, padrao) ==
    IF diretorio \notin pastas THEN {Nenhum}
    ELSE LET arquivos == glob(disco, diretorio, padrao)
         IN  IF arquivos = {} THEN {Nenhum}
             ELSE {Caminho(f.dir, f.nome) :
                      f \in {g \in arquivos : \A h \in arquivos : h.mtime <= g.mtime}}

(***************************************************************************)
(* What each stage wrapper computes before it spawns its worker.           *)
(***************************************************************************)
\* variant: the fallback of collect looks for the whole expected name
coleta_padrao_nome_completo(d, n) == chave(d, n) \o <<".json">>

\* executar_coleta: arquivo_saida and the fallback pattern
coleta_esperado(d, n) == Caminho("brutos", chave(d, n) \o <<".json">>)

coleta_padrao(d, n) == chave(d, n)

\* executar_processamento: arquivo_saida, which is also the fallback pattern
processamento_esperado(entrada) ==
    Caminho("processados", <<"processado_">> \o entrada.nome)

processamento_padrao(entrada) == <<"processado_">> \o entrada.nome

\* f".{formato}"
ponto(fmt) == CASE fmt = "csv" -> ".csv" [] fmt = "excel" -> ".excel" [] fmt = "json" -> ".json"

\* executar_organizacao: nome_base, arquivo_saida and the fallback pattern
organizacao_nome_base(entrada) == splitext0(replace_processado(entrada.nome))

organizacao_esperado(entrada, fmt) ==
    Caminho(fmt, organizacao_nome_base(entrada) \o <<ponto(fmt)>>)

organizacao_padrao(entrada) == organizacao_nome_base(entrada)

(***************************************************************************)
(* The standard output of the index worker and its parsing.                *)
(* Fragments: "{" and "}" are braces, "S" is the text                      *)
(* '"success": true, "total": 5', "F" is '"success": false', "t" is text   *)
(* without braces and "nl" is a line break.                                *)
(***************************************************************************)
SemResultado == [success |-> FALSE, total |-> "", origem |-> "nenhum"]

\* {'success': True, 'message': 'Indexação concluída', 'total': 'desconhecido'}
Desconhecido == [success |-> TRUE, total |-> "desconhecido", origem |-> "fallback"]

\* {'success': False, 'error': str(e), 'total': 0}
FalhaIndexacao == [success |-> FALSE, total |-> "0", origem |-> "erro"]

\* re.search(r'({.*})', stdout): the leftmost "{" that has a "}" after it on
\* the same line, up to the last "}" of that line ("." matches no line break)
re_search(s) ==
    LET MesmaLinha(i, j) == \A k \in i..j : s[k] # "nl"
        Fecha(i) == {j \in (i + 1)..Len(s) : s[j] = "}" /\ MesmaLinha(i, j)}
        Abre == {i \in 1..Len(s) : s[i] = "{" /\ Fecha(i) # {}}
    IN  IF Abre = {} THEN <<>>
        ELSE LET i == CHOOSE a \in Abre : \A b \in Abre : a <= b
                 j == CHOOSE c \in Fecha(i) : \A e \in Fecha(i) : e <= c
             IN  SubSeq(s, i, j)

\* json.loads of a matched text: the dictionary, or "erro" when it raises
json_loads(m) ==
    CASE m = <<"{", "S", "}">> -> [success |-> TRUE, total |-> "5", origem |-> "json"]
      [] m = <<"{", "F", "}">> -> [success |-> FALSE, total |-> "", origem |-> "json"]
      [] m = <<"{", "}">>      -> [success |-> FALSE, total |-> "", origem |-> "json_vazio"]
      [] OTHER                 -> [success |-> FALSE, total |-> "", origem |-> "erro_json"]

\* variant: output without a parsable JSON object counts as a failure
extrai_resultado_estrito(stdout) ==
    LET json_match == re_search(stdout)
    IN  IF json_match # <<>> /\ json_loads(json_match).origem # "erro_json"
        THEN json_loads(json_match)
        ELSE FalhaIndexacao

\* executar_indexacao, lines 251-261: the result extracted from stdout
extrai_resultado(stdout) ==
    LET json_match == re_search(stdout)
    IN  IF json_match # <<>>
        THEN IF json_loads(json_match).origem = "erro_json"
             THEN Desconhecido
             ELSE json_loads(json_match)
        ELSE Desconhecido

\* what the index worker may print
Saidas == {<<>>,
           <<"t">>,
           <<"{", "S", "}">>,
           <<"t", "nl", "{", "S", "}", "nl">>,
           <<"{", "nl", "S", "nl", "}">>,
           <<"{", "t", "}">>,
           <<"{", "t", "}", "{", "S", "}">>,
           <<"{", "F", "}">>,
           <<"{", "}">>}

(***************************************************************************)
(* The workers, seen from the coordinator: a worker ends with an exit      *)
(* code, may leave one file in its output directory and prints to stdout.  *)
(***************************************************************************)
\* the expected name with "_v2" before its extension
nome_v2(nome) == SubSeq(nome, 1, Len(nome) - 1) \o <<"_v2", nome[Len(nome)]>>

\* the files a worker may leave for an expected path
Deixados(esperado) ==
    {esperado,
     Caminho(esperado.dir, nome_v2(esperado.nome)),
     Caminho(esperado.dir, esperado.nome \o <<".bak">>)}

(***************************************************************************)
(* The index worker (src/busca): Indexador.indexar_arquivo and the exit    *)
(* status of its main().                                                   *)
(***************************************************************************)
\* os.path.splitext(arquivo)[1]: the last fragment when it is an extension
extensao(nome) ==
    IF Len(nome) > 0 /\ nome[Len(nome)] \in Extensoes THEN nome[Len(nome)] ELSE ""

\* the extensions indexar_arquivo loads
Suportados == {".csv", ".json", ".xlsx", ".xls"}

\* Indexador.indexar_arquivo: es is "the backend answered at construction",
\* cria "_criar_indice returned True", bulk "helpers.bulk did not raise"
indexar_arquivo(es, cria, ext, bulk) ==
    IF ~es THEN [success |-> FALSE, error |-> "Elasticsearch nao disponivel"]
    ELSE IF ~cria THEN [success |-> FALSE, error |-> "Falha ao criar indice"]
    ELSE IF ext \notin Suportados
         THEN [success |-> FALSE, error |-> "Formato de arquivo nao suportado"]
    ELSE IF ~bulk THEN [success |-> FALSE, error |-> "bulk"]
    ELSE [success |-> TRUE, error |-> ""]

\* busca.main in mode "indexar": 1 when the input path is not found, else the
\* indexing result is logged, never tested, and main returns 0
busca_main(isfile, resultado) ==
    IF ~isfile THEN 1 ELSE 0

(***************************************************************************)
(* The Monitor (src/coordenador/monitor.py): its object after __init__,    *)
(* the threads that call its methods and the files of its status          *)
(* directory.                                                              *)
(***************************************************************************)
\* Thread objects one Monitor creates
MaxThreads == 2
\* threads that call iniciar and parar
MaxChamadores == 2
\* the intervals iniciar is called with: 0..MaxIntervalo
MaxIntervalo == 1
\* clock seconds (of those that name a snapshot) in which a cycle may start
MaxSegundos == 1
\* failures the environment causes: exceptions in the loop, failed writes and
\* failed removals
MaxFalhas == 1

\* notifications published on one topic while the Monitor listens to it
MaxMensagens == 2

Intervalos == 0..MaxIntervalo

\* the topics _verificar_mensagens listens to, in order (monitor.py:128, 140, 152)
Topicos == <<"coleta_concluida", "processamento_concluido", "organizacao_concluida">>

\* no notification on any topic
SemMensagens == [k \in 1..Len(Topicos) |-> 0]

\* a caller outside the Monitor's methods
ChamadorFora == [pc |-> "fora", intervalo |-> 0, resta |-> 0, alvo |-> 0]

\* threading.Thread(target=self._loop_monitoramento, args=(intervalo,)),
\* not started yet
ThreadNova(i) ==
    [pc |-> "criada", intervalo |-> i, voltas |-> 0, resta |-> 0, sonda |-> 0,
     filho |-> <<>>, publicadas |-> SemMensagens, consumidas |-> SemMensagens,
     salvou |-> "", removidos |-> {}]

\* Monitor.__init__
MonitorConstruido ==
    /\ executando = FALSE
    /\ thread_monitor = 0
    /\ threads = <<>>

\* f"status_{datetime.now().strftime('%Y%m%d_%H%M%S')}.json": one name per second
nome_status(segundo) == <<"status_", segundo, ".json">>

\* n snapshots of earlier seconds, left by earlier processes, oldest first
Antigos(n) ==
    [k \in 1..n |-> [nome |-> nome_status(k - n - 1), autor |-> "outro", inteiro |-> TRUE]]

\* a file that is not a snapshot
Notas == [nome |-> <<"notas_", 1, ".txt">>, autor |-> "outro", inteiro |-> TRUE]

\* the status directory when the Monitor is constructed
PreStatus == {<<>>, Antigos(9), <<Notas>> \o Antigos(9), Antigos(15)}

(***************************************************************************)
(* Initial state: main() has parsed its arguments; the data directory may  *)
(* hold files of earlier runs.                                             *)
(***************************************************************************)
\* the requests (date, section) of the model
Pedidos == {<<[ano |-> "2024", mes |-> "03", dia |-> "01"], 3>>,
            <<[ano |-> "2024", mes |-> "01", dia |-> "03"], 1>>}

\* the files an earlier run may have left for the request, or for another one
PreArquivos(d, n, fmt) ==
    {Caminho("brutos", chave(d, n) \o <<".json">>),
     Caminho("brutos", chave(d, n) \o <<"_v2", ".json">>),
     Caminho("processados", <<"processado_">> \o chave(d, n) \o <<".json">>),
     Caminho("csv", chave(d, n) \o <<".csv">>),
     Caminho("csv", <<"processado_">> \o chave(d, n) \o <<".csv">>),
     Caminho(fmt, chave(d, n) \o <<ponto(fmt)>>)}
    \cup {Caminho("brutos", chave(p[1], p[2]) \o <<".json">>) : p \in Pedidos}

\* the disks that hold at most k of the files of candidatos
RECURSIVE DiscosAte(_, _)
DiscosAte(candidatos, k) ==
    IF k = 0 THEN {{}}
    ELSE LET menores == DiscosAte(candidatos, k - 1)
         IN  menores \cup
             {disco \cup {[dir |-> c.dir, nome |-> c.nome, mtime |-> t]} :
                 disco \in menores,
                 c \in candidatos,
                 t \in 1..MaxMtimePre}

PreDiscos(d, n, fmt) ==
    {disco \in DiscosAte(PreArquivos(d, n, fmt), MaxPre) :
        \A f, g \in disco : (f.dir = g.dir /\ f.nome = g.nome) => f = g}

Init ==
    /\ modo \in Modos
    /\ \E p \in Pedidos : data = p[1] /\ secao = p[2]
    /\ formato \in Formatos
    /\ fs \in PreDiscos(data, secao, formato)
    /\ dirs = {f.dir : f \in fs}
    /\ relogio = MaxMtimePre + 1
    /\ pc = "inicio"
    /\ vivos = {}
    /\ lancamentos = <<>>
    /\ codigos = <<>>
    /\ saida = [codigo |-> 0, stdout |-> <<>>]
    /\ arquivo_bruto = Nenhum
    /\ arquivo_processado = Nenhum
    /\ arquivo_organizado = Nenhum
    /\ resultado_indexacao = SemResultado
    /\ relatorios = <<>>
    /\ retorno = -1
    /\ worker_resultado_indexacao = "nenhum"
    /\ MonitorConstruido
    /\ chamadores = <<>>
    /\ status_dir = <<>>
    /\ falhas = 0
    /\ agora = 0
    /\ usar_mensageria = FALSE
    /\ chamadas = <<>>

(***************************************************************************)
(* subprocess.run(cmd, check=True, ...): the worker is spawned and the     *)
(* caller blocks until it has terminated.                                  *)
(***************************************************************************)
Lanca(etapa, entrada, args, destino) ==
    /\ vivos' = vivos \cup {etapa}
    /\ lancamentos' = Append(lancamentos,
           [etapa |-> etapa, entrada |-> entrada, args |-> args, saida |-> destino])

\* variant: the worker is started and not waited for
Terminou_sem_esperar(etapa) == TRUE

\* subprocess.run returns only when the worker has terminated
Terminou(etapa) == etapa \notin vivos

\* variant: the handler of main reports success
Excecao_retorna_zero ==
    /\ retorno' = 0
    /\ pc' = "fim"

\* an exception reaches main's "except Exception": return 1
Excecao ==
    /\ retorno' = 1
    /\ pc' = "fim"

\* the worker of the last launch terminates: whatever its exit code, it may
\* have left a file in its output directory; the index worker writes no file,
\* its exit code is the one busca_main computes unless the process died
\* before main returned, and its stdout is read only when it exited 0
worker_termina ==
    /\ vivos # {}
    /\ LET l == lancamentos[Len(lancamentos)]
           esperado == IF l.etapa = "coleta" THEN coleta_esperado(data, secao) ELSE l.saida
       IN  /\ l.etapa \in vivos
           /\ vivos' = vivos \ {l.etapa}
           /\ \E codigo \in {0, 1} :
                 /\ IF l.etapa = "indexacao"
                    THEN \E morreu, es, cria, bulk \in BOOLEAN :
                            LET r == indexar_arquivo(es, cria, extensao(l.entrada.nome), bulk)
                            IN  /\ worker_resultado_indexacao' =
                                       IF morreu \/ ~exists(fs, l.entrada) THEN "nenhum"
                                       ELSE IF r.success THEN "sucesso" ELSE "falha"
                                /\ codigo = IF morreu THEN 1
                                            ELSE busca_main(exists(fs, l.entrada), r)
                    ELSE UNCHANGED worker_resultado_indexacao
                 /\ codigos' = Append(codigos, codigo)
                 /\ \E texto \in (IF l.etapa = "indexacao" /\ codigo = 0 THEN Saidas ELSE {<<>>}) :
                       saida' = [codigo |-> codigo, stdout |-> texto]
                 /\ \/ /\ fs' = fs
                       /\ relogio' = relogio
                    \/ /\ l.etapa # "indexacao"
                       /\ \E c \in Deixados(esperado) :
                             fs' = Escreve(fs, c, relogio)
                       /\ relogio' = relogio + 1
    /\ UNCHANGED <<modo, data, secao, formato, dirs, pc, lancamentos, arquivo_bruto,
                   arquivo_processado, arquivo_organizado, resultado_indexacao,
                   relatorios, retorno>>
    /\ UNCHANGED varsForaDoCoordenador

(***************************************************************************)
(* Orquestrador.executar_coleta                                            *)
(***************************************************************************)
\* lines 50-75: os.makedirs(brutos_dir), the command, subprocess.run
executar_coleta_chama ==
    /\ pc = "inicio"
    /\ modo \in {"completo", "coleta"}
    /\ dirs' = dirs \cup {"brutos"}
    /\ Lanca("coleta", Nenhum, strftime_dmY(data) \o <<str(secao)>>, Caminho("brutos", <<>>))
    /\ pc' = "coleta"
    /\ UNCHANGED <<modo, data, secao, formato, fs, relogio, codigos, saida, arquivo_bruto,
                   arquivo_processado, arquivo_organizado, resultado_indexacao,
                   relatorios, retorno>>
    /\ UNCHANGED <<worker_resultado_indexacao, varsForaDoCoordenador>>

\* lines 75-95 and main.py:105, 156-157: the worker has terminated
executar_coleta_retorna ==
    /\ pc = "coleta"
    /\ Terminou("coleta")
    /\ LET esperado == coleta_esperado(data, secao)
       IN  \/ /\ saida.codigo # 0
              /\ Excecao
              /\ UNCHANGED arquivo_bruto
           \/ /\ saida.codigo = 0
              /\ exists(fs, esperado)
              /\ arquivo_bruto' = esperado
              /\ IF modo = "completo"
                 THEN pc' = "chama_processamento" /\ UNCHANGED retorno
                 ELSE pc' = "fim" /\ retorno' = 0
           \/ /\ saida.codigo = 0
              /\ ~exists(fs, esperado)
              /\ \E achado \in encontrar_arquivo_mais_recente(fs, dirs, "brutos",
                                                             coleta_padrao(data, secao)) :
                    IF achado = Nenhum
                    THEN Excecao /\ UNCHANGED arquivo_bruto
                    ELSE /\ arquivo_bruto' = achado
                         /\ IF modo = "completo"
                            THEN pc' = "chama_processamento" /\ UNCHANGED retorno
                            ELSE pc' = "fim" /\ retorno' = 0
    /\ UNCHANGED <<modo, data, secao, formato, fs, dirs, relogio, vivos, lancamentos,
                   codigos, saida, arquivo_processado, arquivo_organizado,
                   resultado_indexacao, relatorios>>
    /\ UNCHANGED <<worker_resultado_indexacao, varsForaDoCoordenador>>

(***************************************************************************)
(* Orquestrador.executar_processamento                                     *)
(***************************************************************************)
\* variant: without a raw file the partial mode goes on with the expected path
main_processamento_sem_teste ==
    /\ pc = "inicio"
    /\ modo = "processamento"
    /\ \E achado \in encontrar_arquivo_mais_recente(fs, dirs, "brutos", chave(data, secao)) :
          /\ arquivo_bruto' = IF achado = Nenhum THEN coleta_esperado(data, secao) ELSE achado
          /\ pc' = "chama_processamento"
          /\ UNCHANGED retorno
    /\ UNCHANGED <<modo, data, secao, formato, fs, dirs, relogio, vivos, lancamentos,
                   codigos, saida, arquivo_processado, arquivo_organizado,
                   resultado_indexacao, relatorios>>
    /\ UNCHANGED <<worker_resultado_indexacao, varsForaDoCoordenador>>

\* main.py:159-173: the partial mode looks for the raw file of the request
main_processamento ==
    /\ pc = "inicio"
    /\ modo = "processamento"
    /\ \E achado \in encontrar_arquivo_mais_recente(fs, dirs, "brutos", chave(data, secao)) :
          IF achado = Nenhum
          THEN retorno' = 1 /\ pc' = "fim" /\ UNCHANGED arquivo_bruto
          ELSE arquivo_bruto' = achado /\ pc' = "chama_processamento" /\ UNCHANGED retorno
    /\ UNCHANGED <<modo, data, secao, formato, fs, dirs, relogio, vivos, lancamentos,
                   codigos, saida, arquivo_processado, arquivo_organizado,
                   resultado_indexacao, relatorios>>
    /\ UNCHANGED <<worker_resultado_indexacao, varsForaDoCoordenador>>

\* variant: the worker is given the expected raw path, not the returned one
executar_processamento_chama_nome_esperado ==
    /\ pc = "chama_processamento"
    /\ dirs' = dirs \cup {"processados"}
    /\ Lanca("processamento", coleta_esperado(data, secao), <<>>,
             processamento_esperado(arquivo_bruto))
    /\ pc' = "processamento"
    /\ UNCHANGED <<modo, data, secao, formato, fs, relogio, codigos, saida, arquivo_bruto,
                   arquivo_processado, arquivo_organizado, resultado_indexacao,
                   relatorios, retorno>>
    /\ UNCHANGED <<worker_resultado_indexacao, varsForaDoCoordenador>>

\* lines 108-138: os.makedirs(processados_dir), the command, subprocess.run
executar_processamento_chama ==
    /\ pc = "chama_processamento"
    /\ dirs' = dirs \cup {"processados"}
    /\ Lanca("processamento", arquivo_bruto, <<>>, processamento_esperado(arquivo_bruto))
    /\ pc' = "processamento"
    /\ UNCHANGED <<modo, data, secao, formato, fs, relogio, codigos, saida, arquivo_bruto,
                   arquivo_processado, arquivo_organizado, resultado_indexacao,
                   relatorios, retorno>>
    /\ UNCHANGED <<worker_resultado_indexacao, varsForaDoCoordenador>>

\* lines 138-155 and main.py:109, 173-174: the worker has terminated
executar_processamento_retorna ==
    /\ pc = "processamento"
    /\ Terminou("processamento")
    /\ LET esperado == processamento_esperado(arquivo_bruto)
       IN  \/ /\ saida.codigo # 0
              /\ Excecao
              /\ UNCHANGED arquivo_processado
           \/ /\ saida.codigo = 0
              /\ exists(fs, esperado)
              /\ arquivo_processado' = esperado
              /\ IF modo = "completo"
                 THEN pc' = "chama_organizacao" /\ UNCHANGED retorno
                 ELSE pc' = "fim" /\ retorno' = 0
           \/ /\ saida.codigo = 0
              /\ ~exists(fs, esperado)
              /\ \E achado \in encontrar_arquivo_mais_recente(fs, dirs, "processados",
                                                 processamento_padrao(arquivo_bruto)) :
                    IF achado = Nenhum
                    THEN Excecao /\ UNCHANGED arquivo_processado
                    ELSE /\ arquivo_processado' = achado
                         /\ IF modo = "completo"
                            THEN pc' = "chama_organizacao" /\ UNCHANGED retorno
                            ELSE pc' = "fim" /\ retorno' = 0
    /\ UNCHANGED <<modo, data, secao, formato, fs, dirs, relogio, vivos, lancamentos,
                   codigos, saida, arquivo_bruto, arquivo_organizado,
                   resultado_indexacao, relatorios>>
    /\ UNCHANGED <<worker_resultado_indexacao, varsForaDoCoordenador>>

(***************************************************************************)
(* Orquestrador.executar_organizacao                                       *)
(***************************************************************************)
\* main.py:176-190: the partial mode looks for the processed file of the request
main_organizacao ==
    /\ pc = "inicio"
    /\ modo = "organizacao"
    /\ \E achado \in encontrar_arquivo_mais_recente(fs, dirs, "processados",
                                           <<"processado_">> \o chave(data, secao)) :
          IF achado = Nenhum
          THEN retorno' = 1 /\ pc' = "fim" /\ UNCHANGED arquivo_processado
          ELSE arquivo_processado' = achado /\ pc' = "chama_organizacao" /\ UNCHANGED retorno
    /\ UNCHANGED <<modo, data, secao, formato, fs, dirs, relogio, vivos, lancamentos,
                   codigos, saida, arquivo_bruto, arquivo_organizado,
                   resultado_indexacao, relatorios>>
    /\ UNCHANGED <<worker_resultado_indexacao, varsForaDoCoordenador>>

\* lines 168-202: os.makedirs(organizados_dir), the command, subprocess.run
executar_organizacao_chama ==
    /\ pc = "chama_organizacao"
    /\ dirs' = dirs \cup {formato}
    /\ Lanca("organizacao", arquivo_processado, <<formato>>,
             organizacao_esperado(arquivo_processado, formato))
    /\ pc' = "organizacao"
    /\ UNCHANGED <<modo, data, secao, formato, fs, relogio, codigos, saida, arquivo_bruto,
                   arquivo_processado, arquivo_organizado, resultado_indexacao,
                   relatorios, retorno>>
    /\ UNCHANGED <<worker_resultado_indexacao, varsForaDoCoordenador>>

\* lines 202-219 and main.py:113, 190-191: the worker has terminated
executar_organizacao_retorna ==
    /\ pc = "organizacao"
    /\ Terminou("organizacao")
    /\ LET esperado == organizacao_esperado(arquivo_processado, formato)
       IN  \/ /\ saida.codigo # 0
              /\ Excecao
              /\ UNCHANGED arquivo_organizado
           \/ /\ saida.codigo = 0
              /\ exists(fs, esperado)
              /\ arquivo_organizado' = esperado
              /\ IF modo = "completo"
                 THEN pc' = "chama_indexacao" /\ UNCHANGED retorno
                 ELSE pc' = "fim" /\ retorno' = 0
           \/ /\ saida.codigo = 0
              /\ ~exists(fs, esperado)
              /\ \E achado \in encontrar_arquivo_mais_recente(fs, dirs, formato,
                                                 organizacao_padrao(arquivo_processado)) :
                    IF achado = Nenhum
                    THEN Excecao /\ UNCHANGED arquivo_organizado
                    ELSE /\ arquivo_organizado' = achado
                         /\ IF modo = "completo"
                            THEN pc' = "chama_indexacao" /\ UNCHANGED retorno
                            ELSE pc' = "fim" /\ retorno' = 0
    /\ UNCHANGED <<modo, data, secao, formato, fs, dirs, relogio, vivos, lancamentos,
                   codigos, saida, arquivo_bruto, arquivo_processado,
                   resultado_indexacao, relatorios>>
    /\ UNCHANGED <<worker_resultado_indexacao, varsForaDoCoordenador>>

(***************************************************************************)
(* Orquestrador.executar_indexacao                                         *)
(***************************************************************************)
\* main.py:193-207: the partial mode looks for the organized file of the request
main_busca ==
    /\ pc = "inicio"
    /\ modo = "busca"
    /\ \E achado \in encontrar_arquivo_mais_recente(fs, dirs, "csv",
                                           <<"processado_">> \o chave(data, secao)) :
          IF achado = Nenhum
          THEN retorno' = 1 /\ pc' = "fim" /\ UNCHANGED arquivo_organizado
          ELSE arquivo_organizado' = achado /\ pc' = "chama_indexacao" /\ UNCHANGED retorno
    /\ UNCHANGED <<modo, data, secao, formato, fs, dirs, relogio, vivos, lancamentos,
                   codigos, saida, arquivo_bruto, arquivo_processado,
                   resultado_indexacao, relatorios>>
    /\ UNCHANGED <<worker_resultado_indexacao, varsForaDoCoordenador>>

\* lines 231-248: the command, subprocess.run
executar_indexacao_chama ==
    /\ pc = "chama_indexacao"
    /\ Lanca("indexacao", arquivo_organizado, <<"indexar">>, Nenhum)
    /\ pc' = "indexacao"
    /\ UNCHANGED <<modo, data, secao, formato, fs, dirs, relogio, codigos, saida,
                   arquivo_bruto, arquivo_processado, arquivo_organizado,
                   resultado_indexacao, relatorios, retorno>>
    /\ UNCHANGED <<worker_resultado_indexacao, varsForaDoCoordenador>>

\* main.py:122-144: the run report
Relatorio(resultado) ==
    [data |-> strftime_Ymd(data),
     secao |-> secao,
     coleta |-> [arquivo |-> arquivo_bruto, status |-> "concluido"],
     processamento |-> [arquivo |-> arquivo_processado, status |-> "concluido"],
     organizacao |-> [arquivo |-> arquivo_organizado, status |-> "concluido"],
     indexacao |-> [resultado |-> resultado,
                    status |-> IF resultado.success THEN "concluido" ELSE "falha"]]

\* lines 248-269: the worker has terminated; the result is returned, never raised.
\* main.py:117-151, 207-211: the full run writes its report; both modes return 0
executar_indexacao_retorna ==
    /\ pc = "indexacao"
    /\ Terminou("indexacao")
    /\ resultado_indexacao' = IF saida.codigo # 0 THEN FalhaIndexacao
                              ELSE extrai_resultado(saida.stdout)
    /\ relatorios' = IF modo = "completo"
                     THEN Append(relatorios, Relatorio(resultado_indexacao'))
                     ELSE relatorios
    /\ retorno' = 0
    /\ pc' = "fim"
    /\ UNCHANGED <<modo, data, secao, formato, fs, dirs, relogio, vivos, lancamentos,
                   codigos, saida, arquivo_bruto, arquivo_processado, arquivo_organizado>>
    /\ UNCHANGED <<worker_resultado_indexacao, varsForaDoCoordenador>>

(***************************************************************************)
(* The specification.                                                      *)
(***************************************************************************)
Next ==
    \/ worker_termina
    \/ executar_coleta_chama
    \/ executar_coleta_retorna
    \/ main_processamento
    \/ executar_processamento_chama
    \/ executar_processamento_retorna
    \/ main_organizacao
    \/ executar_organizacao_chama
    \/ executar_organizacao_retorna
    \/ main_busca
    \/ executar_indexacao_chama
    \/ executar_indexacao_retorna

Spec == Init /\ [][Next]_vars

(***************************************************************************)
(* Vocabulary of the properties.                                           *)
(***************************************************************************)
Parciais == {"processamento", "organizacao", "busca"}

\* the stage of the k-th launch of a full run
EtapaDe(k) == Etapas[k]

\* the expected output path of stage k of the run (k = 1, 2, 3)
EsperadoDe(k) ==
    CASE k = 1 -> coleta_esperado(data, secao)
      [] k = 2 -> processamento_esperado(arquivo_bruto)
      [] k = 3 -> organizacao_esperado(arquivo_processado, formato)

\* what the resolver answers for the output of stage k
ResolvidoDe(k) ==
    CASE k = 1 -> encontrar_arquivo_mais_recente(fs, dirs, "brutos", coleta_padrao(data, secao))
      [] k = 2 -> encontrar_arquivo_mais_recente(fs, dirs, "processados",
                                                 processamento_padrao(arquivo_bruto))
      [] k = 3 -> encontrar_arquivo_mais_recente(fs, dirs, formato,
                                                 organizacao_padrao(arquivo_processado))

\* stage k of a full run has failed: its worker exited non-zero, or it exited
\* 0 and neither the expected file nor a resolver match is on disk
Falhou(k) ==
    /\ Len(codigos) >= k
    /\ \/ codigos[k] # 0
       \/ ~exists(fs, EsperadoDe(k)) /\ ResolvidoDe(k) = {Nenhum}

\* the stages launched so far, in order
EtapasLancadas == [k \in 1..Len(lancamentos) |-> lancamentos[k].etapa]

(***************************************************************************)
(* C1: in a full run, once collect, process or organize has failed (its    *)
(* worker exited non-zero or its output artifact cannot be resolved), no   *)
(* later stage's worker is launched and main returns the failure status 1. *)
(***************************************************************************)
C1_AbortaNaPrimeiraFalha ==
    modo = "completo" =>
        \A k \in 1..3 :
            Falhou(k) =>
                /\ Len(lancamentos) = k
                /\ \/ pc = EtapaDe(k) /\ retorno = -1
                   \/ pc = "fim" /\ retorno = 1

\* a full run that stopped after process, whose worker exited 0 and left no
\* resolvable output
C1_Witness ==
    /\ modo = "completo"
    /\ pc = "fim"
    /\ codigos = <<0, 0>>
    /\ Falhou(2)
    /\ retorno = 1

(***************************************************************************)
(* C2: in a full run the launches are a prefix of collect, process,        *)
(* organize, index (so no worker is launched twice), at most one worker is *)
(* alive, and stage n+1 is launched only after the worker of stage n has   *)
(* exited 0 and its output artifact, which exists on disk, was resolved.   *)
(***************************************************************************)
C2_OrdemDosLancamentos ==
    modo = "completo" =>
        /\ Len(lancamentos) <= 4
        /\ EtapasLancadas = SubSeq(Etapas, 1, Len(lancamentos))
        /\ Cardinality(vivos) <= 1
        /\ Len(codigos) >= Len(lancamentos) - 1
        /\ \A k \in 2..Len(lancamentos) :
              /\ codigos[k - 1] = 0
              /\ lancamentos[k].entrada # Nenhum
              /\ exists(fs, lancamentos[k].entrada)

\* a full run that launched all four workers and ended
C2_Witness ==
    /\ modo = "completo"
    /\ pc = "fim"
    /\ Len(lancamentos) = 4
    /\ vivos = {}

(***************************************************************************)
(* C3 (as claimed): in every mode, once a worker of any stage has exited   *)
(* non-zero, a run that has ended has returned a non-zero status.          *)
(***************************************************************************)
C3_FalhaDeWorkerEhFatal ==
    (pc = "fim" /\ \E k \in 1..Len(codigos) : codigos[k] # 0) => retorno = 1

(***************************************************************************)
(* C4: in the partial modes process, organize and index, when the resolver *)
(* finds no predecessor artifact for the request, main returns 1 at once   *)
(* and no worker is ever spawned (nothing happens after main has returned).*)
(***************************************************************************)
SemAntecessor ==
    CASE modo = "processamento" ->
            encontrar_arquivo_mais_recente(fs, dirs, "brutos", chave(data, secao)) = {Nenhum}
      [] modo = "organizacao" ->
            encontrar_arquivo_mais_recente(fs, dirs, "processados",
                                           <<"processado_">> \o chave(data, secao)) = {Nenhum}
      [] modo = "busca" ->
            encontrar_arquivo_mais_recente(fs, dirs, "csv",
                                           <<"processado_">> \o chave(data, secao)) = {Nenhum}
      [] OTHER -> FALSE

C4_SemAntecessorNaoLanca ==
    /\ [][(pc = "inicio" /\ modo \in Parciais /\ SemAntecessor)
             => (pc' = "fim" /\ retorno' = 1 /\ lancamentos' = <<>> /\ vivos' = {})]_vars
    /\ [][pc # "fim"]_vars

\* a partial process run that ended without a launch although the raw
\* directory holds files (of another request)
C4_Witness ==
    /\ modo = "processamento"
    /\ pc = "fim"
    /\ retorno = 1
    /\ lancamentos = <<>>
    /\ \E f \in fs : f.dir = "brutos"

(***************************************************************************)
(* C5 (as claimed): in every partial mode, when the previous stage's       *)
(* artifact for the request is on disk under the naming convention, in the *)
(* previous stage's output directory, the run launches the stage with a    *)
(* most recently modified match as its input.                              *)
(***************************************************************************)
\* the artifact the previous stage writes for the request
ArtefatoAnterior ==
    CASE modo = "processamento" -> coleta_esperado(data, secao)
      [] modo = "organizacao" -> processamento_esperado(coleta_esperado(data, secao))
      [] modo = "busca" ->
            organizacao_esperado(processamento_esperado(coleta_esperado(data, secao)), formato)

\* main has looked for its input and, if it found one, has made the launch
Decidido == pc \notin {"inicio", "chama_processamento", "chama_organizacao", "chama_indexacao"}

C5_ParcialAchaAntecessor ==
    (modo \in Parciais /\ Decidido /\ exists(fs, ArtefatoAnterior)) =>
        /\ Len(lancamentos) >= 1
        /\ \E f \in fs :
              /\ lancamentos[1].entrada = Caminho(f.dir, f.nome)
              /\ f.dir = ArtefatoAnterior.dir
              /\ \A g \in fs :
                    (g.dir = f.dir /\ Casam(g.nome, splitext0(ArtefatoAnterior.nome)))
                        => g.mtime <= f.mtime

(***************************************************************************)
(* C6: the outcome of collect, process and organize once the worker has    *)
(* exited 0.                                                               *)
(***************************************************************************)
\* the most recently modified files of directory d whose name contains padrao
MaisRecentes(d, padrao) ==
    LET casam == {f \in fs : f.dir = d /\ Casam(f.nome, padrao)}
    IN  {Caminho(f.dir, f.nome) : f \in {g \in casam : \A h \in casam : h.mtime <= g.mtime}}

\* the step in which stage k returns after its worker exited 0; depois is the
\* stage's result after the step
RegraDeSaida(k, padrao, depois) ==
    (pc = EtapaDe(k) /\ pc' # pc /\ saida.codigo = 0) =>
        /\ exists(fs, EsperadoDe(k)) =>
              depois = EsperadoDe(k) /\ retorno' # 1
        /\ (~exists(fs, EsperadoDe(k)) /\ MaisRecentes(EsperadoDe(k).dir, padrao) # {}) =>
              depois \in MaisRecentes(EsperadoDe(k).dir, padrao) /\ retorno' # 1
        /\ (~exists(fs, EsperadoDe(k)) /\ MaisRecentes(EsperadoDe(k).dir, padrao) = {}) =>
              depois = Nenhum /\ pc' = "fim" /\ retorno' = 1
        /\ depois # Nenhum => exists(fs, depois)

\* C6 (as claimed): when the worker exits 0 the stage returns the expected
\* path if it is on disk; otherwise a most recent file whose name contains
\* the expected name; if there is neither, the stage fails and main returns
\* 1. A returned path exists on disk.
C6_FallbackPeloNomeEsperado ==
    [][/\ RegraDeSaida(1, EsperadoDe(1).nome, arquivo_bruto')
       /\ RegraDeSaida(2, EsperadoDe(2).nome, arquivo_processado')
       /\ RegraDeSaida(3, EsperadoDe(3).nome, arquivo_organizado')]_vars

\* C6 (amended): when the worker exits 0 the stage returns the expected path
\* if it is on disk; otherwise a most recent file of the output directory
\* whose name contains the fallback pattern, which is the expected name for
\* process and the expected name without its extension for collect and
\* organize; if there is neither, the stage fails and main returns 1. A
\* returned path exists on disk.
C6_FallbackPeloPadrao ==
    [][/\ RegraDeSaida(1, splitext0(EsperadoDe(1).nome), arquivo_bruto')
       /\ RegraDeSaida(2, EsperadoDe(2).nome, arquivo_processado')
       /\ RegraDeSaida(3, splitext0(EsperadoDe(3).nome), arquivo_organizado')]_vars

\* collect ended well with a file that carries the name without its
\* extension but not the expected name
C6_Witness ==
    /\ modo = "coleta"
    /\ pc = "fim"
    /\ retorno = 0
    /\ ~exists(fs, coleta_esperado(data, secao))
    /\ arquivo_bruto # Nenhum
    /\ ~Casam(arquivo_bruto.nome, coleta_esperado(data, secao).nome)

(***************************************************************************)
(* C7: in a full run the input of process is the path collect returned,    *)
(* the input of organize is the path process returned and the input of     *)
(* index is the path organize returned, also when the path came from the   *)
(* resolver fallback.                                                      *)
(***************************************************************************)
C7_SaidaViraEntrada ==
    modo = "completo" =>
        /\ Len(lancamentos) >= 2 => lancamentos[2].entrada = arquivo_bruto
        /\ Len(lancamentos) >= 3 => lancamentos[3].entrada = arquivo_processado
        /\ Len(lancamentos) >= 4 => lancamentos[4].entrada = arquivo_organizado

\* a full run in which collect and organize returned a path of the fallback
C7_Witness ==
    /\ modo = "completo"
    /\ Len(lancamentos) = 4
    /\ arquivo_bruto # coleta_esperado(data, secao)
    /\ arquivo_organizado # organizacao_esperado(arquivo_processado, formato)

(***************************************************************************)
(* C8 (as claimed): a full run whose four workers exit 0 and leave the     *)
(* conventionally named artifacts has, once it has ended, written exactly  *)
(* one report, in which the four stages are 'concluido'; and when stdout   *)
(* of the index worker carries the JSON object with success true and a     *)
(* total, the report's index result is that object.                        *)
(***************************************************************************)
\* the text of stdout without its line breaks
SemQuebras(texto) == SelectSeq(texto, LAMBDA t : t # "nl")

\* stdout carries the JSON object {"success": true, "total": 5}
CarregaSucesso(texto) == Casam(SemQuebras(texto), <<"{", "S", "}">>)

ExecucaoConvencional ==
    /\ modo = "completo"
    /\ pc = "fim"
    /\ codigos = <<0, 0, 0, 0>>
    /\ arquivo_bruto = coleta_esperado(data, secao)
    /\ arquivo_processado = processamento_esperado(arquivo_bruto)
    /\ arquivo_organizado = organizacao_esperado(arquivo_processado, formato)

C8_RelatorioDaExecucaoCompleta ==
    ExecucaoConvencional =>
        /\ Len(relatorios) = 1
        /\ relatorios[1].coleta.status = "concluido"
        /\ relatorios[1].processamento.status = "concluido"
        /\ relatorios[1].organizacao.status = "concluido"
        /\ relatorios[1].indexacao.status = "concluido"
        /\ CarregaSucesso(saida.stdout) =>
              relatorios[1].indexacao.resultado = json_loads(<<"{", "S", "}">>)

(***************************************************************************)
(* C9: when the index worker exits 0 and its stdout holds no parsable JSON *)
(* object, the index result is success = true with total 'desconhecido',   *)
(* main returns 0 and the report of a full run marks indexing 'concluido'. *)
(***************************************************************************)
\* no part of stdout, line breaks aside, is a JSON object
SemJson(texto) ==
    \A i \in 1..Len(texto) : \A j \in i..Len(texto) :
        json_loads(SemQuebras(SubSeq(texto, i, j))).origem = "erro_json"

IndexacaoTerminou ==
    /\ pc = "fim"
    /\ lancamentos # <<>>
    /\ lancamentos[Len(lancamentos)].etapa = "indexacao"

C9_SemJsonSucessoDegradado ==
    (IndexacaoTerminou /\ saida.codigo = 0 /\ SemJson(saida.stdout)) =>
        /\ resultado_indexacao.success = TRUE
        /\ resultado_indexacao.total = "desconhecido"
        /\ retorno = 0
        /\ modo = "completo" =>
              /\ Len(relatorios) = 1
              /\ relatorios[1].indexacao.status = "concluido"
              /\ relatorios[1].indexacao.resultado = resultado_indexacao

\* a full run whose index worker printed braces around text that is no JSON
C9_Witness ==
    /\ IndexacaoTerminou
    /\ modo = "completo"
    /\ saida.codigo = 0
    /\ saida.stdout = <<"{", "t", "}">>

(***************************************************************************)
(* C10 (as claimed): a full run that was aborted because process failed    *)
(* has written a report in which organize and index are marked as not      *)
(* attempted.                                                              *)
(***************************************************************************)
C10_RelatorioDaExecucaoAbortada ==
    (modo = "completo" /\ pc = "fim" /\ Len(lancamentos) = 2 /\ Falhou(2)) =>
        /\ Len(relatorios) = 1
        /\ relatorios[1].organizacao.status = "pendente"
        /\ relatorios[1].indexacao.status = "pendente"
(***************************************************************************)
(* C11: whenever the indexing fails inside the index worker (backend       *)
(* unavailable, index creation fails, unsupported format, bulk error) the  *)
(* worker exits non-zero, and the coordinator does not end with the index  *)
(* stage marked as succeeded.                                              *)
(***************************************************************************)
C11_FalhaDeIndexacaoSaiNaoZero ==
    worker_resultado_indexacao = "falha" =>
        /\ saida.codigo # 0
        /\ pc = "fim" => ~resultado_indexacao.success

(***************************************************************************)
(* The Monitor: the initial states of its specifications.  The coordinator *)
(* is not running.                                                         *)
(***************************************************************************)
\* no run of the coordinator is in progress
CoordenadorParado ==
    /\ modo = "completo"
    /\ data = [ano |-> "2024", mes |-> "03", dia |-> "01"]
    /\ secao = 3
    /\ formato = "csv"
    /\ fs = {}
    /\ dirs = {}
    /\ relogio = 1
    /\ pc = "inicio"
    /\ vivos = {}
    /\ lancamentos = <<>>
    /\ codigos = <<>>
    /\ saida = [codigo |-> 0, stdout |-> <<>>]
    /\ arquivo_bruto = Nenhum
    /\ arquivo_processado = Nenhum
    /\ arquivo_organizado = Nenhum
    /\ resultado_indexacao = SemResultado
    /\ relatorios = <<>>
    /\ retorno = -1
    /\ worker_resultado_indexacao = "nenhum"

\* a new Monitor on an empty status directory, used by MaxChamadores threads
InitMonitor ==
    /\ CoordenadorParado
    /\ MonitorConstruido
    /\ chamadores = [c \in 1..MaxChamadores |-> ChamadorFora]
    /\ status_dir = <<>>
    /\ falhas = 0
    /\ agora = 0
    /\ usar_mensageria = FALSE
    /\ chamadas = <<>>

\* a new Monitor on a status directory that holds files, used by the main
\* thread alone (coordenador/main.py:65-70): iniciar, and parar on Ctrl-C
InitStatus ==
    /\ CoordenadorParado
    /\ MonitorConstruido
    /\ chamadores = <<ChamadorFora>>
    /\ status_dir \in PreStatus
    /\ falhas = 0
    /\ agora = 0
    /\ usar_mensageria = FALSE
    /\ chamadas = <<>>

\* the threads that call the Monitor
Chamadores == DOMAIN chamadores

\* the record of the caller c becomes campos
Vai(c, campos) == chamadores' = [chamadores EXCEPT ![c] = campos]

\* Thread objects created or about to be created
Criadas == Len(threads) + Cardinality({c \in Chamadores :
                                          chamadores[c].pc \in {"iniciar_59", "iniciar_62"}})

(***************************************************************************)
(* Monitor.iniciar, statement by statement: the run flag is read and       *)
(* written without a lock.                                                 *)
(***************************************************************************)
\* variant: iniciar does not test the run flag
iniciar_55_sem_teste(c, i) ==
    /\ chamadores[c].pc = "fora"
    /\ Criadas < MaxThreads
    /\ Vai(c, [chamadores[c] EXCEPT !.pc = "iniciar_59", !.intervalo = i])
    /\ UNCHANGED <<executando, thread_monitor, threads, status_dir, falhas, agora>>
    /\ UNCHANGED varsForaDoMonitor

\* lines 55-57: "if self.executando: warn; return"
iniciar_55(c, i) ==
    /\ chamadores[c].pc = "fora"
    /\ IF executando
       THEN Vai(c, [chamadores[c] EXCEPT !.pc = "iniciar_ignorado"])
       ELSE /\ Criadas < MaxThreads
            /\ Vai(c, [chamadores[c] EXCEPT !.pc = "iniciar_59", !.intervalo = i])
    /\ UNCHANGED <<executando, thread_monitor, threads, status_dir, falhas, agora>>
    /\ UNCHANGED varsForaDoMonitor

\* line 59: self.executando = True
iniciar_59(c) ==
    /\ chamadores[c].pc = "iniciar_59"
    /\ executando' = TRUE
    /\ Vai(c, [chamadores[c] EXCEPT !.pc = "iniciar_62"])
    /\ UNCHANGED <<thread_monitor, threads, status_dir, falhas, agora>>
    /\ UNCHANGED varsForaDoMonitor

\* lines 62-65: self.thread_monitor = threading.Thread(...); daemon = True
iniciar_62(c) ==
    /\ chamadores[c].pc = "iniciar_62"
    /\ threads' = Append(threads, ThreadNova(chamadores[c].intervalo))
    /\ thread_monitor' = Len(threads) + 1
    /\ Vai(c, [chamadores[c] EXCEPT !.pc = "iniciar_66", !.intervalo = 0])
    /\ UNCHANGED <<executando, status_dir, falhas, agora>>
    /\ UNCHANGED varsForaDoMonitor

\* line 66: self.thread_monitor.start(), on the object the attribute holds
\* now; starting a thread twice raises RuntimeError out of iniciar
iniciar_66(c) ==
    /\ chamadores[c].pc = "iniciar_66"
    /\ IF threads[thread_monitor].pc = "criada"
       THEN /\ threads' = [threads EXCEPT ![thread_monitor].pc = "teste"]
            /\ Vai(c, [chamadores[c] EXCEPT !.pc = "iniciar_68"])
       ELSE /\ threads' = threads
            /\ Vai(c, [chamadores[c] EXCEPT !.pc = "iniciar_excecao"])
    /\ UNCHANGED <<executando, thread_monitor, status_dir, falhas, agora>>
    /\ UNCHANGED varsForaDoMonitor

\* lines 68-72: "while self.executando: time.sleep(1)" ends
iniciar_68(c) ==
    /\ chamadores[c].pc = "iniciar_68"
    /\ ~executando
    /\ Vai(c, [chamadores[c] EXCEPT !.pc = "iniciar_retornou"])
    /\ UNCHANGED <<executando, thread_monitor, threads, status_dir, falhas, agora>>
    /\ UNCHANGED varsForaDoMonitor

(***************************************************************************)
(* The status directory: _salvar_status and _limpar_arquivos_antigos.      *)
(***************************************************************************)
\* self._limpar_arquivos_antigos(self.status_dir, 10)
max_arquivos == 10

Nomes(dir) == {dir[k].nome : k \in 1..Len(dir)}

\* open(arquivo_status, 'w') and json.dump: the file is created, or truncated
\* and rewritten when the name exists; its modification time becomes the latest
grava(dir, nome, autor, inteiro) ==
    LET criador == IF nome \in Nomes(dir)
                   THEN (CHOOSE k \in 1..Len(dir) : dir[k].nome = nome)
                   ELSE 0
    IN  SelectSeq(dir, LAMBDA f : f.nome # nome)
        \o <<[nome |-> nome,
              autor |-> IF criador = 0 THEN autor ELSE dir[criador].autor,
              inteiro |-> inteiro]>>

\* the files the cleanup tries to remove: arquivos[:-max_arquivos] of the
\* listing sorted by modification time
excedentes(dir, maximo) ==
    IF Len(dir) <= maximo THEN <<>> ELSE SubSeq(dir, 1, Len(dir) - maximo)

\* variant: the cleanup keeps the oldest files
limpar_mais_novos(dir, maximo, falha) ==
    IF Len(dir) <= maximo THEN dir ELSE SubSeq(dir, 1, maximo)

\* _limpar_arquivos_antigos: every file of the directory is listed; falha is
\* the position of the excess file whose os.remove raises (0: none does)
limpar_arquivos_antigos(dir, maximo, falha) ==
    LET n == Len(excedentes(dir, maximo))
    IN  [k \in 1..(Len(dir) - n + (IF falha \in 1..n THEN 1 ELSE 0)) |->
            IF falha \in 1..n
            THEN (IF k = 1 THEN dir[falha] ELSE dir[n + k - 1])
            ELSE dir[n + k]]

\* how a call of _salvar_status may go
Desfechos == {"ok", "falha_open", "falha_dump"}

\* _salvar_status: the write and, only after a complete write, the cleanup;
\* "falha_open" is open() raising, "falha_dump" json.dump raising after open()
salvar_status(dir, segundo, autor, desfecho, falha) ==
    CASE desfecho = "falha_open" -> dir
      [] desfecho = "falha_dump" -> grava(dir, nome_status(segundo), autor, FALSE)
      [] OTHER -> limpar_arquivos_antigos(grava(dir, nome_status(segundo), autor, TRUE),
                                          max_arquivos, falha)

(***************************************************************************)
(* Monitor.parar.                                                          *)
(***************************************************************************)
\* join(timeout=5)
TimeoutJoin == 5

\* lines 80-82: "if not self.executando: warn; return", self.executando = False;
\* called from outside or by the KeyboardInterrupt handler of iniciar (line 71)
parar_80(c) ==
    /\ chamadores[c].pc \in {"fora", "iniciar_68"}
    /\ IF ~executando
       THEN /\ Vai(c, [chamadores[c] EXCEPT !.pc = "parar_ignorado"])
            /\ executando' = executando
       ELSE /\ executando' = FALSE
            /\ Vai(c, [chamadores[c] EXCEPT !.pc = "parar_84"])
    /\ UNCHANGED <<thread_monitor, threads, status_dir, falhas, agora>>
    /\ UNCHANGED varsForaDoMonitor

\* lines 83-84: "if self.thread_monitor: self.thread_monitor.join(timeout=5)";
\* join on a Thread that was not started raises RuntimeError
parar_84(c) ==
    /\ chamadores[c].pc = "parar_84"
    /\ IF thread_monitor = 0
       THEN Vai(c, [chamadores[c] EXCEPT !.pc = "parar_retornou"])
       ELSE IF threads[thread_monitor].pc = "criada"
       THEN Vai(c, [chamadores[c] EXCEPT !.pc = "parar_excecao"])
       ELSE Vai(c, [chamadores[c] EXCEPT !.pc = "parar_join", !.alvo = thread_monitor,
                                         !.resta = TimeoutJoin])
    /\ UNCHANGED <<executando, thread_monitor, threads, status_dir, falhas, agora>>
    /\ UNCHANGED varsForaDoMonitor

\* join returns: the thread has ended or the timeout has expired
parar_join(c) ==
    /\ chamadores[c].pc = "parar_join"
    /\ threads[chamadores[c].alvo].pc = "fim" \/ chamadores[c].resta = 0
    /\ Vai(c, [chamadores[c] EXCEPT !.pc = "parar_retornou", !.alvo = 0, !.resta = 0])
    /\ UNCHANGED <<executando, thread_monitor, threads, status_dir, falhas, agora>>
    /\ UNCHANGED varsForaDoMonitor

\* how a call of iniciar or parar may end
Desfechos_chamada == {"iniciar_ignorado", "iniciar_excecao", "iniciar_retornou",
                      "parar_ignorado", "parar_excecao", "parar_retornou"}

\* the call has ended: the caller is outside the Monitor's methods again
chamador_sai(c) ==
    /\ chamadores[c].pc \in Desfechos_chamada
    /\ Vai(c, ChamadorFora)
    /\ UNCHANGED <<executando, thread_monitor, threads, status_dir, falhas, agora>>
    /\ UNCHANGED varsForaDoMonitor

(***************************************************************************)
(* Time: one second passes.  The steps of the model are instantaneous;     *)
(* time passes while a loop thread is blocked in a sleep or on the child   *)
(* process of a probe, or while a caller is blocked in join.  A sleep or a *)
(* join whose time has expired returns before the next second.             *)
(***************************************************************************)
Dormindo(t) == threads[t].pc \in {"dorme", "backoff"}

\* somebody is blocked on time or on a child process
Bloqueado ==
    \/ \E t \in 1..Len(threads) : Dormindo(t) \/ threads[t].pc = "agentes"
    \/ \E c \in Chamadores : chamadores[c].pc = "parar_join"

tique ==
    /\ Bloqueado
    /\ \A c \in Chamadores : chamadores[c].pc = "parar_join" => chamadores[c].resta > 0
    /\ \A t \in 1..Len(threads) : Dormindo(t) => threads[t].resta > 0
    /\ agora' = IF nome_status(agora) \in Nomes(status_dir) THEN agora + 1 ELSE agora
    /\ threads' = [t \in 1..Len(threads) |->
                      IF Dormindo(t)
                      THEN [threads[t] EXCEPT !.resta = @ - 1]
                      ELSE threads[t]]
    /\ chamadores' = [c \in Chamadores |->
                         IF chamadores[c].pc = "parar_join"
                         THEN [chamadores[c] EXCEPT !.resta = @ - 1]
                         ELSE chamadores[c]]
    /\ UNCHANGED <<executando, thread_monitor, status_dir, falhas>>
    /\ UNCHANGED varsForaDoMonitor

(***************************************************************************)
(* Monitor._loop_monitoramento, run by the thread t.                       *)
(***************************************************************************)
\* the workers verificar_status_agentes probes with "--help", in order
Agentes == <<"coletor", "processador", "organizador", "busca">>

\* time.sleep(10) of the handler
Backoff == 10

\* the thread t takes the step that leaves its record as campos
Passo(t, campos) == threads' = [threads EXCEPT ![t] = campos]

\* [python_exec, '-m', '<agente>.main', '--help'] (orquestrador.py:381, 389, 397, 405)
comando_help(agente) == <<agente, ".main", "--help">>

\* line 95: "while self.executando"; a Running loop spawns its first probe
loop_95(t) ==
    /\ threads[t].pc = "teste"
    /\ IF executando
       THEN /\ agora < MaxSegundos
            /\ Passo(t, [threads[t] EXCEPT !.pc = "agentes", !.sonda = 1,
                                           !.filho = comando_help(Agentes[1])])
       ELSE Passo(t, [threads[t] EXCEPT !.pc = "fim"])
    /\ UNCHANGED <<executando, thread_monitor, chamadores, status_dir, falhas, agora>>
    /\ UNCHANGED varsForaDoMonitor

\* line 98, orquestrador.py:381-412: the subprocess.run of the current probe
\* returns, whatever the exit code (a failure is caught: 'indisponivel');
\* there is no timeout: the thread waits until the child exits
loop_98(t) ==
    /\ threads[t].pc = "agentes"
    /\ IF threads[t].sonda < Len(Agentes)
       THEN Passo(t, [threads[t] EXCEPT !.sonda = @ + 1,
                         !.filho = comando_help(Agentes[threads[t].sonda + 1])])
       ELSE Passo(t, [threads[t] EXCEPT !.pc = "mensagens", !.sonda = 0, !.filho = <<>>])
    /\ UNCHANGED <<executando, thread_monitor, chamadores, status_dir, falhas, agora>>
    /\ UNCHANGED varsForaDoMonitor

\* variant: the call drains its queue
consumir_todas_as_mensagens(publicadas, broker) ==
    IF broker THEN publicadas ELSE 0

\* mensageria.consumir_mensagem_unica(topico, timeout=1): how many messages the
\* call takes off its queue.  The queue is exclusive and declared by the call;
\* the callback takes the first message, acknowledges it and closes the
\* connection; without a message the timeout closes it; a failure of the
\* broker is caught and the call returns None
consumir_mensagem_unica(publicadas, broker) ==
    IF broker /\ publicadas > 0 THEN 1 ELSE 0

\* _verificar_mensagens: nothing without 'usar_mensageria', else one call of
\* consumir_mensagem_unica for each topic; every message is only logged
verificar_mensagens(usar, publicadas, broker) ==
    IF ~usar THEN SemMensagens
    ELSE [k \in 1..Len(Topicos) |-> consumir_mensagem_unica(publicadas[k], broker)]

\* line 102: _verificar_mensagens returns (its failures are caught inside);
\* publicadas are the notifications published while the thread listens
loop_102(t) ==
    /\ threads[t].pc = "mensagens"
    /\ \E publicadas \in (IF usar_mensageria
                           THEN [1..Len(Topicos) -> 0..MaxMensagens]
                           ELSE {SemMensagens}),
          broker \in BOOLEAN :
          Passo(t, [threads[t] EXCEPT
                 !.pc = "arquivos",
                 !.publicadas = publicadas,
                 !.consumidas = verificar_mensagens(usar_mensageria, publicadas, broker)])
    /\ UNCHANGED <<executando, thread_monitor, chamadores, status_dir, falhas, agora>>
    /\ UNCHANGED varsForaDoMonitor

\* line 105: _verificar_arquivos_recentes only lists and logs
loop_105(t) ==
    /\ threads[t].pc = "arquivos"
    /\ Passo(t, [threads[t] EXCEPT !.pc = "salvar", !.publicadas = SemMensagens,
                                   !.consumidas = SemMensagens])
    /\ UNCHANGED <<executando, thread_monitor, chamadores, status_dir, falhas, agora>>
    /\ UNCHANGED varsForaDoMonitor

\* variant: the cleanup of the cycle is run on the directory of the raw files
loop_108_limpa_brutos(t) ==
    /\ threads[t].pc = "salvar"
    /\ fs' = {f \in fs : f.dir # "brutos"}
    /\ Passo(t, [threads[t] EXCEPT !.pc = "espera", !.voltas = threads[t].intervalo])
    /\ UNCHANGED <<executando, thread_monitor, chamadores, status_dir, falhas, agora>>
    /\ UNCHANGED <<modo, data, secao, formato, dirs, relogio, pc, vivos, lancamentos,
                   codigos, saida, arquivo_bruto, arquivo_processado, arquivo_organizado,
                   resultado_indexacao, relatorios, retorno, worker_resultado_indexacao,
                   usar_mensageria, chamadas>>

\* line 108: _salvar_status, whose failures are caught inside; salvou and
\* removidos record what the call did to the directory
loop_108(t) ==
    /\ threads[t].pc = "salvar"
    /\ \E desfecho \in Desfechos,
          falha \in (IF Len(status_dir) >= max_arquivos THEN {0, 1} ELSE {0}) :
          LET falhou == desfecho # "ok" \/ falha # 0
              nome == nome_status(agora)
              existia == nome \in Nomes(status_dir)
              escrito == IF desfecho = "falha_open" THEN status_dir
                         ELSE grava(status_dir, nome, "monitor", desfecho = "ok")
              depois == salvar_status(status_dir, agora, "monitor", desfecho, falha)
          IN  /\ falhou => falhas < MaxFalhas
              /\ falhas' = IF falhou THEN falhas + 1 ELSE falhas
              /\ status_dir' = depois
              /\ Passo(t, [threads[t] EXCEPT
                     !.pc = "espera",
                     !.voltas = threads[t].intervalo,
                     !.salvou = CASE desfecho = "falha_open" -> "falha_open"
                                  [] desfecho = "falha_dump" ->
                                        IF existia THEN "falha_truncou" ELSE "falha_dump"
                                  [] OTHER -> IF existia THEN "sobrescreveu" ELSE "criou",
                     !.removidos = {escrito[k] : k \in 1..Len(escrito)}
                                   \ {depois[k] : k \in 1..Len(depois)}])
    /\ UNCHANGED <<executando, thread_monitor, chamadores, agora>>
    /\ UNCHANGED varsForaDoMonitor

\* lines 111-113: "for _ in range(intervalo): if not self.executando: break"
loop_111(t) ==
    /\ threads[t].pc = "espera"
    /\ IF threads[t].voltas = 0 \/ ~executando
       THEN Passo(t, [threads[t] EXCEPT !.pc = "teste", !.voltas = 0,
                                        !.salvou = "", !.removidos = {}])
       ELSE Passo(t, [threads[t] EXCEPT !.pc = "dorme", !.voltas = @ - 1, !.resta = 1,
                                        !.salvou = "", !.removidos = {}])
    /\ UNCHANGED <<executando, thread_monitor, chamadores, status_dir, falhas, agora>>
    /\ UNCHANGED varsForaDoMonitor

\* line 113: time.sleep(1) returns
loop_113(t) ==
    /\ threads[t].pc = "dorme"
    /\ threads[t].resta = 0
    /\ Passo(t, [threads[t] EXCEPT !.pc = "espera"])
    /\ UNCHANGED <<executando, thread_monitor, chamadores, status_dir, falhas, agora>>
    /\ UNCHANGED varsForaDoMonitor

\* variant: an exception of the try block ends the thread
loop_116_termina(t) ==
    /\ threads[t].pc \in {"agentes", "mensagens", "arquivos", "salvar", "espera", "dorme"}
    /\ falhas < MaxFalhas
    /\ falhas' = falhas + 1
    /\ Passo(t, [threads[t] EXCEPT !.pc = "fim"])
    /\ UNCHANGED <<executando, thread_monitor, chamadores, status_dir, agora>>
    /\ UNCHANGED varsForaDoMonitor

\* lines 116-118: a statement of the try block raises an exception that the
\* step does not catch itself; "except Exception" logs and starts time.sleep(10)
loop_116(t) ==
    /\ threads[t].pc \in {"agentes", "mensagens", "arquivos", "salvar", "espera", "dorme"}
    /\ falhas < MaxFalhas
    /\ falhas' = falhas + 1
    /\ Passo(t, [threads[t] EXCEPT !.pc = "backoff", !.resta = Backoff, !.voltas = 0,
                                   !.sonda = 0, !.filho = <<>>,
                                   !.publicadas = SemMensagens,
                                   !.consumidas = SemMensagens,
                                   !.salvou = "", !.removidos = {}])
    /\ UNCHANGED <<executando, thread_monitor, chamadores, status_dir, agora>>
    /\ UNCHANGED varsForaDoMonitor

\* line 118: time.sleep(10) returns
loop_118(t) ==
    /\ threads[t].pc = "backoff"
    /\ threads[t].resta = 0
    /\ Passo(t, [threads[t] EXCEPT !.pc = "teste"])
    /\ UNCHANGED <<executando, thread_monitor, chamadores, status_dir, falhas, agora>>
    /\ UNCHANGED varsForaDoMonitor

(***************************************************************************)
(* The specifications of the Monitor.  With the main thread as the only    *)
(* caller, the wait of iniciar (lines 68-72) ends only by Ctrl-C, which    *)
(* calls parar.                                                            *)
(***************************************************************************)
NextStatus ==
    \/ \E c \in Chamadores, i \in Intervalos : iniciar_55(c, i)
    \/ \E c \in Chamadores : iniciar_59(c)
    \/ \E c \in Chamadores : iniciar_62(c)
    \/ \E c \in Chamadores : iniciar_66(c)
    \/ \E c \in Chamadores : parar_80(c)
    \/ \E c \in Chamadores : parar_84(c)
    \/ \E c \in Chamadores : parar_join(c)
    \/ \E c \in Chamadores : chamador_sai(c)
    \/ tique
    \/ \E t \in 1..Len(threads) : loop_95(t)
    \/ \E t \in 1..Len(threads) : loop_98(t)
    \/ \E t \in 1..Len(threads) : loop_102(t)
    \/ \E t \in 1..Len(threads) : loop_105(t)
    \/ \E t \in 1..Len(threads) : loop_108(t)
    \/ \E t \in 1..Len(threads) : loop_111(t)
    \/ \E t \in 1..Len(threads) : loop_113(t)
    \/ \E t \in 1..Len(threads) : loop_116(t)
    \/ \E t \in 1..Len(threads) : loop_118(t)

NextMonitor ==
    \/ NextStatus
    \/ \E c \in Chamadores : iniciar_68(c)

SpecMonitor == InitMonitor /\ [][NextMonitor]_vars

SpecStatus == InitStatus /\ [][NextStatus]_vars

(***************************************************************************)
(* C12: iniciar called on a Monitor that is Running is a no-op: the call   *)
(* that finds the run flag set returns at once, creates no Thread, and     *)
(* leaves the flag, the current thread and every loop thread (its position *)
(* and its interval) as they were.                                         *)
(***************************************************************************)
C12_IniciarEmExecucaoNaoFazNada ==
    [][\A c \in Chamadores :
          (/\ executando
           /\ chamadores[c].pc = "fora"
           /\ chamadores'[c].pc \in {"iniciar_59", "iniciar_ignorado"})
          => /\ chamadores'[c].pc = "iniciar_ignorado"
             /\ UNCHANGED <<executando, thread_monitor, threads>>]_vars

\* a second iniciar was ignored while the loop thread of the first one runs
C12_Witness ==
    \E c \in Chamadores :
       /\ chamadores[c].pc = "iniciar_ignorado"
       /\ executando
       /\ thread_monitor # 0
       /\ threads[thread_monitor].pc \in {"agentes", "salvar", "dorme"}
       /\ Len(threads) = 1

(***************************************************************************)
(* C13: parar on a Running Monitor always returns: it clears the run flag  *)
(* and waits in join for at most the 5 seconds of the timeout, whatever    *)
(* the loop is doing; it never ends by an exception.                       *)
(***************************************************************************)
C13_PararSempreRetorna ==
    \A c \in Chamadores :
       /\ chamadores[c].pc # "parar_excecao"
       /\ chamadores[c].pc = "parar_join" => chamadores[c].resta \in 0..TimeoutJoin

(***************************************************************************)
(* C14: a loop thread that sleeps, between cycles or in the backoff,       *)
(* re-checks the run flag every second: once the flag is cleared, what is  *)
(* left of its sleep is at most one second.                                *)
(***************************************************************************)
C14_SonoRevisaOSinal ==
    \A t \in 1..Len(threads) :
       (~executando /\ Dormindo(t)) => threads[t].resta <= 1

PassoProprio(t) ==
    /\ t \in 1..Len(threads)
    /\ \/ loop_95(t)
       \/ loop_102(t)
       \/ loop_105(t)
       \/ loop_108(t)
       \/ loop_111(t)
       \/ loop_113(t)
       \/ loop_118(t)

SpecStatusJusto ==
    /\ SpecStatus
    /\ WF_vars(tique)
    /\ \A t \in 1..MaxThreads : WF_vars(PassoProprio(t))

(***************************************************************************)
(* C16: a cycle that has started its probes eventually persists its        *)
(* snapshot and reaches its sleep (or, if the iteration fails, its         *)
(* backoff), even when the child process of a probe never exits.           *)
(***************************************************************************)
C16_CicloChegaAoSnapshot ==
    \A t \in 1..MaxThreads :
       (t <= Len(threads) /\ threads[t].pc = "agentes")
          ~> (t <= Len(threads) /\ threads[t].pc \in {"espera", "backoff"})

(***************************************************************************)
(* Vocabulary of the status-directory claims: the step of thread t that    *)
(* runs _salvar_status, and what the directory held once the snapshot was  *)
(* written.                                                                *)
(***************************************************************************)
Salvou(t) == threads[t].pc = "salvar" /\ threads'[t].pc = "espera"

EscritaCompleta(t) == threads'[t].salvou \in {"criou", "sobrescreveu"}

EscritaFalhou(t) == threads'[t].salvou \in {"falha_open", "falha_dump", "falha_truncou"}

AposEscrita == grava(status_dir, nome_status(agora), "monitor", TRUE)

\* the n most recently modified files of dir
MaisNovos(dir, n) == IF Len(dir) <= n THEN dir ELSE SubSeq(dir, Len(dir) - n + 1, Len(dir))

C18_SnapshotNuncaSobrescrito ==
    \A t \in 1..Len(threads) : threads[t].salvou \notin {"sobrescreveu", "falha_truncou"}

(***************************************************************************)
(* C19: when the write of the snapshot fails, the cycle deletes and        *)
(* modifies no file that existed before, and the thread goes on to its     *)
(* sleep between cycles.                                                   *)
(***************************************************************************)
C19_FalhaDeEscritaNaoTocaNosAntigos ==
    [][\A t \in 1..Len(threads) :
          (Salvou(t) /\ EscritaFalhou(t))
          => /\ \A k \in 1..Len(status_dir) :
                   \E j \in 1..Len(status_dir') : status_dir'[j] = status_dir[k]
             /\ threads'[t].voltas = threads[t].intervalo]_vars

(***************************************************************************)
(* C20: the retention cleanup removes only snapshot files this Monitor     *)
(* created.                                                                *)
(***************************************************************************)
C20_LimpezaSoRemoveOsProprios ==
    \A t \in 1..Len(threads) :
       \A f \in threads[t].removidos : f.autor = "monitor"

(***************************************************************************)
(* A run of the coordinator and a Monitor of another process on the same   *)
(* data directory (main.py:61-74: the monitoring mode returns before the   *)
(* Orquestrador is built, so the two never share a process).  The Monitor  *)
(* is Running: its main thread waits in iniciar and its loop thread is at  *)
(* the test of the run flag.                                               *)
(***************************************************************************)
\* the artifacts an earlier run left for the request of the joint run
ArtefatosAnteriores ==
    LET d == [ano |-> "2024", mes |-> "03", dia |-> "01"]
    IN  {[dir |-> "brutos", nome |-> chave(d, 3) \o <<".json">>, mtime |-> 1],
         [dir |-> "processados",
          nome |-> <<"processado_">> \o chave(d, 3) \o <<".json">>, mtime |-> 1],
         [dir |-> "csv", nome |-> chave(d, 3) \o <<".csv">>, mtime |-> 2]}

InitConjunto ==
    /\ modo \in Modos
    /\ data = [ano |-> "2024", mes |-> "03", dia |-> "01"]
    /\ secao = 3
    /\ formato = "csv"
    /\ fs \in {{}, ArtefatosAnteriores}
    /\ dirs = {f.dir : f \in fs}
    /\ relogio = MaxMtimePre + 1
    /\ pc = "inicio"
    /\ vivos = {}
    /\ lancamentos = <<>>
    /\ codigos = <<>>
    /\ saida = [codigo |-> 0, stdout |-> <<>>]
    /\ arquivo_bruto = Nenhum
    /\ arquivo_processado = Nenhum
    /\ arquivo_organizado = Nenhum
    /\ resultado_indexacao = SemResultado
    /\ relatorios = <<>>
    /\ retorno = -1
    /\ worker_resultado_indexacao = "nenhum"
    /\ executando = TRUE
    /\ threads = <<[ThreadNova(MaxIntervalo) EXCEPT !.pc = "teste"]>>
    /\ thread_monitor = 1
    /\ chamadores = <<[ChamadorFora EXCEPT !.pc = "iniciar_68"]>>
    /\ status_dir = Antigos(15)
    /\ falhas = 0
    /\ agora = 0
    /\ usar_mensageria \in BOOLEAN
    /\ chamadas = <<>>

\* the steps of the loop threads and the passing of time
NextLoop ==
    \/ tique
    \/ \E t \in 1..Len(threads) : loop_95(t)
    \/ \E t \in 1..Len(threads) : loop_98(t)
    \/ \E t \in 1..Len(threads) : loop_102(t)
    \/ \E t \in 1..Len(threads) : loop_105(t)
    \/ \E t \in 1..Len(threads) : loop_108(t)
    \/ \E t \in 1..Len(threads) : loop_111(t)
    \/ \E t \in 1..Len(threads) : loop_113(t)
    \/ \E t \in 1..Len(threads) : loop_116(t)
    \/ \E t \in 1..Len(threads) : loop_118(t)

NextConjunto == Next \/ NextLoop

SpecConjunto == InitConjunto /\ [][NextConjunto]_vars

(***************************************************************************)
(* C21: under every interleaving of the Monitor's cycles with a run of the *)
(* coordinator on the same data directory, a step of the Monitor leaves    *)
(* every stage artifact (name and modification time) and every run report  *)
(* as it was, and every step of the run is a step the coordinator takes    *)
(* without the Monitor: the run has the outcome it has alone.              *)
(***************************************************************************)
C21_MonitorNaoInterfereNaExecucao ==
    [][/\ varsMonitor' # varsMonitor => (fs' = fs /\ relatorios' = relatorios)
       /\ varsCoordenador' # varsCoordenador => Next]_vars

\* the cleanup of a cycle has removed snapshots while a worker of the run was
\* alive and artifacts were on disk
C21_Witness ==
    /\ vivos # {}
    /\ fs # {}
    /\ \E t \in 1..Len(threads) :
          /\ threads[t].pc = "espera"
          /\ threads[t].salvou = "criou"
          /\ threads[t].removidos # {}

(***************************************************************************)
(* C22: the Monitor only observes.  Whatever notifications are published   *)
(* and whatever files are on disk, a step of the Monitor launches no stage *)
(* (the launches of the run and its live workers are left as they were),   *)
(* the only child processes of its loop threads are the "--help" probes of *)
(* the four workers, and one cycle takes at most one notification of each  *)
(* of the three topics.                                                    *)
(***************************************************************************)
C22_MonitorSoObserva ==
    [][/\ varsMonitor' # varsMonitor => (lancamentos' = lancamentos /\ vivos' = vivos)
       /\ \A t \in 1..Len(threads) :
             /\ threads'[t].filho \in
                   {<<>>} \cup {comando_help(Agentes[k]) : k \in 1..Len(Agentes)}
             /\ \A k \in 1..Len(Topicos) : threads'[t].consumidas[k] <= 1]_vars

\* a cycle has listened while two notifications of the collect topic and one
\* of the organize topic were published, during the run, and took one of each
C22_Witness ==
    /\ vivos # {}
    /\ \E t \in 1..Len(threads) :
          /\ threads[t].pc = "arquivos"
          /\ threads[t].publicadas = <<2, 0, 1>>
          /\ threads[t].consumidas = <<1, 0, 1>>

(***************************************************************************)
(* The resolver and the availability probe as functions of their inputs:   *)
(* they are called on directories and with probe outcomes that no run of   *)
(* the coordinator needs to have produced.                                 *)
(***************************************************************************)
\* entries of the directory the resolver is called on
MaxArquivos == 3
\* modification times of those entries: 1..MaxMtime
MaxMtime == 3
\* calls recorded in one behaviour
MaxChamadas == 2

\* the orders in which the operating system may enumerate the entries
Listagens(arquivos) ==
    {l \in [1..Cardinality(arquivos) -> arquivos] :
        \A i, j \in 1..Cardinality(arquivos) : l[i] = l[j] => i = j}

\* variant: the oldest entry is returned
min_getmtime(lista) ==
    lista[CHOOSE i \in 1..Len(lista) :
             /\ \A j \in 1..(i - 1) : lista[j].mtime > lista[i].mtime
             /\ \A j \in (i + 1)..Len(lista) : lista[j].mtime >= lista[i].mtime]

\* max(arquivos, key=os.path.getmtime): the first entry, in the order of the
\* list, that no other entry exceeds
max_getmtime(lista) ==
    lista[CHOOSE i \in 1..Len(lista) :
             /\ \A j \in 1..(i - 1) : lista[j].mtime < lista[i].mtime
             /\ \A j \in (i + 1)..Len(lista) : lista[j].mtime <= lista[i].mtime]

\* variant: a directory that does not exist is answered with its own path
resolver_sem_teste(pastas, diretorio, lista) ==
    IF lista = <<>> THEN Caminho(diretorio, <<>>)
    ELSE Caminho(max_getmtime(lista).dir, max_getmtime(lista).nome)

\* encontrar_arquivo_mais_recente, lines 358-371, on the list glob.glob returned
resolver(pastas, diretorio, lista) ==
    IF diretorio \notin pastas THEN Nenhum
    ELSE IF lista = <<>> THEN Nenhum
    ELSE Caminho(max_getmtime(lista).dir, max_getmtime(lista).nome)

\* how the child process of a probe may end: exit 0, a non-zero exit
\* (CalledProcessError), or the interpreter cannot be spawned (OSError)
DesfechosSonda == {"saiu_0", "saiu_1", "nao_iniciou"}

\* variant: the first probe that fails ends the check
verificar_ate_a_falha(desfechos) ==
    LET falhas_em == {k \in 1..Len(Agentes) : desfechos[k] # "saiu_0"}
        ultimo == IF falhas_em = {} THEN Len(Agentes)
                  ELSE (CHOOSE k \in falhas_em : \A j \in falhas_em : k <= j) - 1
    IN  [a \in {Agentes[k] : k \in 1..ultimo} |-> "disponivel"]

\* verificar_status_agentes: one try/except around each subprocess.run
verificar_status_agentes(desfechos) ==
    [a \in {Agentes[k] : k \in 1..Len(Agentes)} |->
        LET k == CHOOSE j \in 1..Len(Agentes) : Agentes[j] = a
        IN  IF desfechos[k] = "saiu_0" THEN "disponivel" ELSE "indisponivel"]

\* the names an entry of the resolver's directory may have, for the pattern
\* of the request: three that hold the pattern and one that does not
NomesDeEntrada ==
    LET d == [ano |-> "2024", mes |-> "03", dia |-> "01"]
    IN  {chave(d, 3) \o <<".json">>,
         chave(d, 3) \o <<"_v2", ".json">>,
         <<"processado_">> \o chave(d, 3) \o <<".json">>,
         chave(d, 1) \o <<".json">>}

\* the directories of at most k entries
RECURSIVE DiretoriosAte(_)
DiretoriosAte(k) ==
    IF k = 0 THEN {{}}
    ELSE LET menores == DiretoriosAte(k - 1)
         IN  menores \cup
             {disco \cup {[dir |-> "brutos", nome |-> n, mtime |-> t]} :
                 disco \in menores, n \in NomesDeEntrada, t \in 1..MaxMtime}

\* a directory of entries, and no call made yet
InitResolver ==
    /\ modo = "completo"
    /\ data = [ano |-> "2024", mes |-> "03", dia |-> "01"]
    /\ secao = 3
    /\ formato = "csv"
    /\ fs \in {disco \in DiretoriosAte(MaxArquivos) :
                  \A f, g \in disco : f.nome = g.nome => f = g}
    /\ dirs \in {{"brutos"}, {f.dir : f \in fs}}
    /\ relogio = MaxMtime + 1
    /\ pc = "inicio"
    /\ vivos = {}
    /\ lancamentos = <<>>
    /\ codigos = <<>>
    /\ saida = [codigo |-> 0, stdout |-> <<>>]
    /\ arquivo_bruto = Nenhum
    /\ arquivo_processado = Nenhum
    /\ arquivo_organizado = Nenhum
    /\ resultado_indexacao = SemResultado
    /\ relatorios = <<>>
    /\ retorno = -1
    /\ worker_resultado_indexacao = "nenhum"
    /\ MonitorConstruido
    /\ chamadores = <<>>
    /\ status_dir = <<>>
    /\ falhas = 0
    /\ agora = 0
    /\ usar_mensageria = FALSE
    /\ chamadas = <<>>

\* a call of encontrar_arquivo_mais_recente(diretorio, padrao) on the disk
chama_resolver(diretorio, padrao) ==
    /\ Len(chamadas) < MaxChamadas
    /\ \E lista \in Listagens(glob(fs, diretorio, padrao)) :
          chamadas' = Append(chamadas,
              [funcao |-> "encontrar_arquivo_mais_recente",
               diretorio |-> diretorio,
               padrao |-> padrao,
               desfechos |-> <<>>,
               retorno |-> resolver(dirs, diretorio, lista)])
    /\ UNCHANGED <<varsCoordenador, varsMonitor, usar_mensageria>>

\* a call of verificar_status_agentes, whose probes end as desfechos
chama_verificar_status_agentes(desfechos) ==
    /\ Len(chamadas) < MaxChamadas
    /\ chamadas' = Append(chamadas,
           [funcao |-> "verificar_status_agentes",
            diretorio |-> "",
            padrao |-> <<>>,
            desfechos |-> desfechos,
            retorno |-> verificar_status_agentes(desfechos)])
    /\ UNCHANGED <<varsCoordenador, varsMonitor, usar_mensageria>>

\* the patterns the resolver is called with
Padroes ==
    LET d == [ano |-> "2024", mes |-> "03", dia |-> "01"]
    IN  {chave(d, 3), <<"processado_">> \o chave(d, 3) \o <<".json">>}

NextResolver ==
    \E diretorio \in {"brutos", "processados"}, padrao \in Padroes :
       chama_resolver(diretorio, padrao)

SpecResolver == InitResolver /\ [][NextResolver]_vars

\* no call of the probe made yet; the probe reads nothing from the disk
InitSonda ==
    /\ CoordenadorParado
    /\ MonitorConstruido
    /\ chamadores = <<>>
    /\ status_dir = <<>>
    /\ falhas = 0
    /\ agora = 0
    /\ usar_mensageria = FALSE
    /\ chamadas = <<>>

NextSonda ==
    \E desfechos \in [1..Len(Agentes) -> DesfechosSonda] :
       chama_verificar_status_agentes(desfechos)

SpecSonda == InitSonda /\ [][NextSonda]_vars

\* the calls of the resolver and of the probe recorded so far
ChamadasDoResolver ==
    {i \in 1..Len(chamadas) : chamadas[i].funcao = "encontrar_arquivo_mais_recente"}

ChamadasDaSonda ==
    {i \in 1..Len(chamadas) : chamadas[i].funcao = "verificar_status_agentes"}

(***************************************************************************)
(* C23: called on an existing directory in which at least one entry        *)
(* matches the pattern and the matching entries have pairwise distinct     *)
(* modification times, the resolver returns the matching entry of greatest *)
(* modification time, and never an entry that does not match.              *)
(***************************************************************************)
C23_ResolverDevolveOMaisRecente ==
    \A i \in ChamadasDoResolver :
       LET c == chamadas[i]
           casam == glob(fs, c.diretorio, c.padrao)
       IN  (/\ c.diretorio \in dirs
            /\ casam # {}
            /\ \A f, g \in casam : f.mtime = g.mtime => f = g)
           => \E f \in casam :
                 /\ c.retorno = Caminho(f.dir, f.nome)
                 /\ \A g \in casam : g.mtime <= f.mtime

\* the directory holds two matching entries of distinct times and a newer
\* entry that does not match: the newer of the two was returned
C23_Witness ==
    \E i \in ChamadasDoResolver :
       LET c == chamadas[i]
           casam == glob(fs, c.diretorio, c.padrao)
       IN  /\ Cardinality(casam) = 2
           /\ \E f, g \in casam, h \in fs \ casam :
                 /\ g.mtime < f.mtime
                 /\ f.mtime < h.mtime
                 /\ h.dir = c.diretorio
                 /\ c.retorno = Caminho(f.dir, f.nome)

(***************************************************************************)
(* C24: two calls of the resolver with the same directory and pattern, on  *)
(* the same entries and modification times, return the same path, in       *)
(* whatever order the directory is enumerated, also when several matching  *)
(* entries share the greatest modification time.                           *)
(***************************************************************************)
C24_EmpateResolvidoSempreIgual ==
    \A i, j \in ChamadasDoResolver :
       (/\ chamadas[i].diretorio = chamadas[j].diretorio
        /\ chamadas[i].padrao = chamadas[j].padrao)
       => chamadas[i].retorno = chamadas[j].retorno

(***************************************************************************)
(* C25: called on a directory that does not exist, the resolver returns    *)
(* the not-found result (None), raises nothing, and leaves the files and   *)
(* the directories on disk as they were.                                   *)
(***************************************************************************)
C25_DiretorioAusenteDevolveNone ==
    [][\A i \in 1..Len(chamadas') :
          (/\ i > Len(chamadas)
           /\ chamadas'[i].funcao = "encontrar_arquivo_mais_recente"
           /\ chamadas'[i].diretorio \notin dirs)
          => /\ chamadas'[i].retorno = Nenhum
             /\ fs' = fs
             /\ dirs' = dirs]_vars

\* the resolver was called on "processados", which does not exist, while
\* "brutos" exists and holds an entry that matches the pattern
C25_Witness ==
    \E i \in ChamadasDoResolver :
       /\ chamadas[i].diretorio = "processados"
       /\ "processados" \notin dirs
       /\ chamadas[i].retorno = Nenhum
       /\ glob(fs, "brutos", chamadas[i].padrao) # {}

(***************************************************************************)
(* C26: the availability probe always returns a mapping with exactly the   *)
(* four worker names; a worker is 'available' exactly when its own         *)
(* self-check exited cleanly, and 'unavailable' after a non-zero exit or a *)
(* spawn failure, whatever happened to the probes of the other workers.    *)
(***************************************************************************)
C26_SondaNuncaLanca ==
    \A i \in ChamadasDaSonda :
       LET c == chamadas[i]
       IN  /\ DOMAIN c.retorno = {"coletor", "processador", "organizador", "busca"}
           /\ \A k \in 1..Len(Agentes) :
                 c.retorno[Agentes[k]] =
                    IF c.desfechos[k] = "saiu_0" THEN "disponivel" ELSE "indisponivel"

\* the second probe exited non-zero and the third could not be spawned: the
\* first and the fourth worker are available all the same
C26_Witness ==
    \E i \in ChamadasDaSonda :
       /\ chamadas[i].desfechos = <<"saiu_0", "saiu_1", "nao_iniciou", "saiu_0">>
       /\ chamadas[i].retorno["coletor"] = "disponivel"
       /\ chamadas[i].retorno["processador"] = "indisponivel"
       /\ chamadas[i].retorno["organizador"] = "indisponivel"
       /\ chamadas[i].retorno["busca"] = "disponivel"

(***************************************************************************)
(* The naming protocol of the artifacts, as the other stages read it.      *)
(***************************************************************************)
\* the extension of an organized artifact of the format fmt
ExtensaoDoProtocolo(fmt) ==
    CASE fmt = "csv" -> ".csv" [] fmt = "excel" -> ".xlsx" [] fmt = "json" -> ".json"

\* the name without a leading "processado_"
SemPrefixo(nome) ==
    IF Len(nome) > 0 /\ nome[1] = "processado_" THEN Tail(nome) ELSE nome

\* the name without its extension
SemExtensao(nome) ==
    IF Len(nome) > 1 /\ nome[Len(nome)] \in Extensoes
    THEN SubSeq(nome, 1, Len(nome) - 1)
    ELSE nome

(***************************************************************************)
(* C27: for every date, section and output format, the artifact a stage    *)
(* is launched to produce has the name of the protocol: collect            *)
(* {YYYY-MM-DD}_secao{N}.json, process "processado_" followed by the base  *)
(* name of its input, organize the base name of its input without the      *)
(* "processado_" prefix and with the extension replaced by csv, xlsx or    *)
(* json for the formats csv, excel and json.                               *)
(***************************************************************************)
C27_NomesSeguemOProtocolo ==
    \A k \in 1..Len(lancamentos) :
       LET l == lancamentos[k]
       IN  /\ l.etapa = "coleta"
              => coleta_esperado(data, secao).nome =
                    <<data.ano, "-", data.mes, "-", data.dia, "_secao", str(secao), ".json">>
           /\ l.etapa = "processamento"
              => l.saida.nome = <<"processado_">> \o l.entrada.nome
           /\ l.etapa = "organizacao"
              => l.saida.nome = SemExtensao(SemPrefixo(l.entrada.nome))
                                   \o <<ExtensaoDoProtocolo(formato)>>

(***************************************************************************)
(* Vocabulary of the claims about the states of the Monitor.               *)
(***************************************************************************)
\* the thread t is inside an iteration of the loop: between the test of the
\* run flag that let it in and the next test
EmIteracao(t) ==
    threads[t].pc \in {"agentes", "mensagens", "arquivos", "salvar", "espera", "dorme",
                       "backoff"}

(***************************************************************************)
(* C28: at most one loop thread of the Monitor is inside an iteration of   *)
(* the loop at any time, for every sequence and interleaving of iniciar    *)
(* and parar: also when iniciar follows a parar whose join timed out, and  *)
(* when two calls of iniciar race on the run flag.                         *)
(***************************************************************************)
C28_UmSoLoopDeCadaVez ==
    Cardinality({t \in 1..Len(threads) : EmIteracao(t)}) <= 1

(***************************************************************************)
(* C29: once parar has returned and until iniciar is called again, the     *)
(* Monitor is Stopped: no loop thread is inside an iteration any more, so  *)
(* that no probe runs and no snapshot is written or removed.               *)
(***************************************************************************)
C29_DepoisDePararNadaRoda ==
    (/\ \E c \in Chamadores : chamadores[c].pc = "parar_retornou"
     /\ \A c \in Chamadores : chamadores[c].pc \in {"fora", "parar_retornou"}
     /\ ~executando)
    => \A t \in 1..Len(threads) : ~EmIteracao(t)

(***************************************************************************)
(* C30: iniciar starts the loop thread and returns to its caller while the *)
(* Monitor is Running: the call does not last as long as the Monitor runs. *)
(***************************************************************************)
C30_IniciarRetornaEmExecucao ==
    [][\A c \in Chamadores :
          (chamadores[c].pc # "iniciar_retornou" /\ chamadores'[c].pc = "iniciar_retornou")
          => executando]_vars

====
